---- MODULE Spec2Model ----
(***************************************************************************)
(* Deep Belief Network notebook (Autoencoders/DBN-Review.ipynb): the RBM   *)
(* class, the NN classifier class and the notebook cells that drive them.  *)
(*                                                                         *)
(* Numbers.  The notebook computes in float32.  The model computes in      *)
(* fixed point: the integer n stands for the value n / Unit, products are  *)
(* rescaled by Unit and every quotient is rounded to the nearest           *)
(* representable value.  tf.nn.sigmoid is the logistic function rounded to *)
(* that grid (it saturates to exactly 0 and 1 for large arguments, as the  *)
(* float32 kernel does).                                                   *)
(*                                                                         *)
(* Randomness.  tf.random_uniform draws afresh on every sess.run; a run    *)
(* is modelled as a choice among all outcomes the draw can produce.        *)
(*                                                                         *)
(* Arrays.  A Python field holds a reference to a numpy array, and         *)
(* load_from_rbms makes w_list[i] and rbm_list[i].w the same array.  In    *)
(* SpecFlow the fields w, hb, vb, w_list[i], b_list[i] hold addresses into *)
(* heap, so that a write into a shared array would show in every field     *)
(* that refers to it.  In Spec, SpecTrain and SpecLoad the fields hold the *)
(* arrays' values and heap stays empty.                                    *)
(***************************************************************************)
EXTENDS Integers, Sequences, FiniteSets, TLC

VARIABLES
    RBM_hidden_sizes,   \* cell 13: the list of hidden-layer widths
    trX, trY,           \* cell 10: training features and one-hot labels
    inpX,               \* cell 13/16: the current RBM training input
    rbm_list,           \* cell 13: the RBM objects (their fields)
    nNet,               \* cell 22: the NN object (its fields), or NoNN
    pc,                 \* position of the notebook's top-level code
    ri,                 \* cell 16: index of the for loop over rbm_list
    tr,                 \* activation frame of RBM.train, or IdleFrame
    nt,                 \* activation frame of NN.train, or IdleFrame
    rng,                \* number of sess.run calls that drew random numbers
    out,                \* the printed lines
    failure,            \* the exception that ended the program, or "none"
    events,             \* history: the method calls made and returned from
    heap                \* SpecFlow: the numpy arrays, by identity (see below)

vars == <<RBM_hidden_sizes, trX, trY, inpX, rbm_list, nNet, pc, ri, tr, nt,
          rng, out, failure, events, heap>>

----------------------------------------------------------------------------
(* Bounds of the model.  The notebook's literals (batchsize 100, 5 and 10  *)
(* epochs, layers of 500/200/50 units, 55000 images of 784 pixels) are     *)
(* scaled down to these.                                                   *)

batchsize == 2      \* RBM.batchsize and NN._batchsize (100 in the notebook)
epochs == 1         \* RBM.epochs (5 in the notebook)
epoches == 1        \* NN._epoches (10 in the notebook)
MaxN == 3           \* most rows of a dataset
MaxWidth == 2       \* widest dataset row
NumClasses == 2     \* width of the one-hot labels (10 in the notebook)

----------------------------------------------------------------------------
(* float32 arithmetic in fixed point *)

Unit == 2

\* a / b rounded to the nearest integer (b > 0)
RDiv(a, b) == (2 * a + b) \div (2 * b)

\* tf.nn.sigmoid: Unit / (1 + exp(-x / Unit)) rounded to the grid
Sigmoid(x) ==
    IF x <= -3 THEN 0
    ELSE IF x <= 2 THEN 1
    ELSE 2

RECURSIVE SumTo(_, _)
SumTo(f, n) == IF n = 0 THEN 0 ELSE f[n] + SumTo(f, n - 1)

\* the sum of f over its domain 1..Len(f)
Sum(f) == SumTo(f, Len(f))

\* np.zeros([n]) and np.zeros([r, c])
Zeros1(n) == [i \in 1 .. n |-> 0]
Zeros2(r, c) == [i \in 1 .. r |-> [j \in 1 .. c |-> 0]]

\* range(a, b, step) and zip(s, t) of Python
RECURSIVE Range(_, _, _)
Range(a, b, step) == IF a >= b THEN <<>> ELSE <<a>> \o Range(a + step, b, step)

Zip(s, t) ==
    LET n == IF Len(s) <= Len(t) THEN Len(s) ELSE Len(t)
    IN  [i \in 1 .. n |-> <<s[i], t[i]>>]

\* A dataset is a 2-d array: its row width (shape[1]) and its rows.
\* X[start:end] with 0-based, end-exclusive Python indices.
Slice(X, start, end) ==
    LET e == IF end <= Len(X.rows) THEN end ELSE Len(X.rows)
    IN  [width |-> X.width,
         rows |-> IF start >= e THEN <<>>
                  ELSE [i \in 1 .. (e - start) |-> X.rows[start + i]]]

----------------------------------------------------------------------------
(* class RBM *)

\* RBM.learning_rate = 1.0
learning_rate == 1 * Unit

\* what tf.reduce_mean gives for an array with no element
NaN == 0 - 1

\* RBM.__init__
RBM(input_size, output_size) ==
    [_input_size |-> input_size,
     _output_size |-> output_size,
     w |-> Zeros2(input_size, output_size),
     hb |-> Zeros1(output_size),
     vb |-> Zeros1(input_size)]

\* RBM.prob_h_given_v: sigmoid(visible . w + hb), one row per row of visible
prob_h_given_v(visible, w, hb) ==
    [r \in 1 .. Len(visible) |->
        [j \in 1 .. Len(hb) |->
            Sigmoid(RDiv(Sum([i \in 1 .. Len(w) |-> visible[r][i] * w[i][j]]), Unit)
                    + hb[j])]]

\* RBM.prob_v_given_h: sigmoid(hidden . transpose(w) + vb)
prob_v_given_h(hidden, w, vb) ==
    [r \in 1 .. Len(hidden) |->
        [i \in 1 .. Len(vb) |->
            Sigmoid(RDiv(Sum([j \in 1 .. Len(w[i]) |-> hidden[r][j] * w[i][j]]), Unit)
                    + vb[i])]]

\* relu(sign(p - u)) for u uniform in [0, 1): 1 needs u < p, 0 needs u >= p
Draw(p) == (IF p > 0 THEN {Unit} ELSE {}) \cup (IF p < Unit THEN {0} ELSE {})

\* RBM.sample_prob: every array the draw can binarize probs to
sample_prob(probs) ==
    IF Len(probs) = 0 THEN {<<>>}
    ELSE {s \in [1 .. Len(probs) -> [1 .. Len(probs[1]) -> {0, Unit}]] :
            \A r \in 1 .. Len(probs) : \A i \in 1 .. Len(probs[1]) :
                s[r][i] \in Draw(probs[r][i])}

\* One evaluation of the graph's tensors h0, v1, h1 for the feed (v0, _w,
\* _hb, _vb): every outcome of the two draws.
Samples(v0, w, hb, vb) ==
    UNION {{[h0 |-> h, v1 |-> v, h1 |-> prob_h_given_v(v, w, hb)] :
              v \in sample_prob(prob_v_given_h(h, w, vb))} :
           h \in sample_prob(prob_h_given_v(v0, w, hb))}

\* tf.matmul(tf.transpose(a), b), entries in units of 1 / Unit^2
TransposeMatMul(a, b, rows, cols) ==
    [i \in 1 .. rows |-> [j \in 1 .. cols |->
        Sum([r \in 1 .. Len(a) |-> a[r][i] * b[r][j]])]]

positive_grad(s, v0, w) == TransposeMatMul(v0, s.h0, Len(w), Len(w[1]))
negative_grad(s, v0, w) == TransposeMatMul(s.v1, s.h1, Len(w), Len(w[1]))

\* update_w = _w + learning_rate * (positive_grad - negative_grad) / rows(v0)
update_w(s, v0, w) ==
    [i \in 1 .. Len(w) |-> [j \in 1 .. Len(w[i]) |->
        w[i][j] + RDiv(learning_rate * (positive_grad(s, v0, w)[i][j]
                                        - negative_grad(s, v0, w)[i][j]),
                       Len(v0) * Unit * Unit)]]

\* update_vb = _vb + learning_rate * reduce_mean(v0 - v1, 0)
update_vb(s, v0, vb) ==
    [i \in 1 .. Len(vb) |->
        vb[i] + RDiv(learning_rate * Sum([r \in 1 .. Len(v0) |-> v0[r][i] - s.v1[r][i]]),
                     Len(v0) * Unit)]

\* update_hb = _hb + learning_rate * reduce_mean(h0 - h1, 0)
update_hb(s, v0, hb) ==
    [j \in 1 .. Len(hb) |->
        hb[j] + RDiv(learning_rate * Sum([r \in 1 .. Len(v0) |-> s.h0[r][j] - s.h1[r][j]]),
                     Len(v0) * Unit)]

\* every value sess.run(update_w, {v0: v0, _w: w, _hb: hb, _vb: vb}) can
\* return, and likewise for update_hb and update_vb: each run evaluates
\* the tensors h0, v1, h1 anew
Run_update_w(v0, w, hb, vb) == {update_w(s, v0, w) : s \in Samples(v0, w, hb, vb)}
Run_update_hb(v0, w, hb, vb) == {update_hb(s, v0, hb) : s \in Samples(v0, w, hb, vb)}
Run_update_vb(v0, w, hb, vb) == {update_vb(s, v0, vb) : s \in Samples(v0, w, hb, vb)}

\* sum of square(v0 - v1) over one row, in units of 1 / Unit^2
SqErrRow(v0row, v1row) ==
    Sum([i \in 1 .. Len(v0row) |-> (v0row[i] - v1row[i]) * (v0row[i] - v1row[i])])

\* a sum of squares in place of their mean
MeanSq_Sum(total, count) == IF count = 0 THEN NaN ELSE RDiv(total, Unit)

\* tf.reduce_mean over count elements whose squares sum to total
MeanSq(total, count) == IF count = 0 THEN NaN ELSE RDiv(total, count * Unit)

\* err = reduce_mean(square(v0 - v1))
err(v0, v1, width) ==
    MeanSq(Sum([r \in 1 .. Len(v0) |-> SqErrRow(v0[r], v1[r])]), Len(v0) * width)

\* The sums of squares that the rows 1..k of v0 can produce: the rows are
\* sampled independently, so the outcomes of err over Samples(v0, ...) are
\* the sums of one outcome per row.
RECURSIVE SqErrSums(_, _, _, _, _)
SqErrSums(v0, k, w, hb, vb) ==
    IF k = 0 THEN {0}
    ELSE {a + b : a \in SqErrSums(v0, k - 1, w, hb, vb),
                  b \in {SqErrRow(v0[k], s.v1[1]) : s \in Samples(<<v0[k]>>, w, hb, vb)}}

\* every value sess.run(err, {v0: X, _w: w, _hb: hb, _vb: vb}) can return
ErrRun(X, w, hb, vb) ==
    {MeanSq(t, Len(X.rows) * X.width) : t \in SqErrSums(X.rows, Len(X.rows), w, hb, vb)}

\* zip(range(0, len(X), batchsize), range(batchsize, len(X), batchsize))
Batches(n, bs) == Zip(Range(0, n, bs), Range(bs, n, bs))

----------------------------------------------------------------------------
(* RBM.train, statement by statement *)

IdleFrame == [step |-> "idle"]

\* an exception leaves every active frame and ends the notebook's run
Raise(e) ==
    /\ failure' = e
    /\ tr' = IdleFrame
    /\ nt' = IdleFrame
    /\ pc' = "failed"

\* a training loop that leaves out the end-of-epoch error run
LoopStep_NoErr(todo, epoch) ==
    IF epoch >= epochs \/ Len(todo) = 0 THEN "store" ELSE "update_w"

\* where the body continues when the batch loop has todo left to do
LoopStep(todo, epoch) ==
    IF epoch >= epochs THEN "store"
    ELSE IF Len(todo) > 0 THEN "update_w"
    ELSE "err"

\* RBM.train(X) up to the first statement of the training loop: prv_* and
\* cur_* are fresh zero arrays, whatever self.w, self.hb and self.vb hold
TrainFrame(self, X) ==
    LET rbm == rbm_list[self]
        todo == Batches(Len(X.rows), batchsize)
    IN  [step |-> LoopStep(todo, 0),
         self |-> self,
         X |-> X,
         prv_w |-> Zeros2(rbm._input_size, rbm._output_size),
         prv_hb |-> Zeros1(rbm._output_size),
         prv_vb |-> Zeros1(rbm._input_size),
         cur_w |-> Zeros2(rbm._input_size, rbm._output_size),
         cur_hb |-> Zeros1(rbm._output_size),
         cur_vb |-> Zeros1(rbm._input_size),
         epoch |-> 0,
         todo |-> todo,
         done |-> <<>>,
         draw_w |-> 0, draw_hb |-> 0, draw_vb |-> 0]

\* batch = X[start:end] for the pair the batch loop is at
Batch(f) == Slice(f.X, f.todo[1][1], f.todo[1][2])

\* the placeholder v0 has shape [None, _input_size]: a feed of another
\* row width is rejected by sess.run
FeedFits(f) == f.X.width = rbm_list[f.self]._input_size

\* cur_w = sess.run(update_w, {v0: batch, _w: prv_w, _hb: prv_hb, _vb: prv_vb})
RBMTrain_update_w ==
    /\ tr.step = "update_w"
    /\ UNCHANGED heap
    /\ IF ~FeedFits(tr)
       THEN /\ Raise("ValueError")
            /\ UNCHANGED <<rng>>
       ELSE /\ \E new \in Run_update_w(Batch(tr).rows, tr.prv_w, tr.prv_hb, tr.prv_vb) :
                 tr' = [tr EXCEPT !.cur_w = new,
                                  !.draw_w = rng + 1,
                                  !.step = "update_hb"]
            /\ rng' = rng + 1
            /\ UNCHANGED <<nt, pc, failure>>
    /\ UNCHANGED <<events, RBM_hidden_sizes, trX, trY, inpX, rbm_list, nNet, ri, out>>

\* cur_hb = sess.run(update_hb, {v0: batch, _w: prv_w, _hb: prv_hb, _vb: prv_vb})
RBMTrain_update_hb ==
    /\ tr.step = "update_hb"
    /\ UNCHANGED heap
    /\ \E new \in Run_update_hb(Batch(tr).rows, tr.prv_w, tr.prv_hb, tr.prv_vb) :
         tr' = [tr EXCEPT !.cur_hb = new,
                          !.draw_hb = rng + 1,
                          !.step = "update_vb"]
    /\ rng' = rng + 1
    /\ UNCHANGED <<events, RBM_hidden_sizes, trX, trY, inpX, rbm_list, nNet, pc, ri, nt,
                   out, failure>>

\* cur_vb = sess.run(update_vb, {v0: batch, _w: prv_w, _hb: prv_hb, _vb: prv_vb})
RBMTrain_update_vb ==
    /\ tr.step = "update_vb"
    /\ UNCHANGED heap
    /\ \E new \in Run_update_vb(Batch(tr).rows, tr.prv_w, tr.prv_hb, tr.prv_vb) :
         tr' = [tr EXCEPT !.cur_vb = new,
                          !.draw_vb = rng + 1,
                          !.step = "assign"]
    /\ rng' = rng + 1
    /\ UNCHANGED <<events, RBM_hidden_sizes, trX, trY, inpX, rbm_list, nNet, pc, ri, nt,
                   out, failure>>

\* prv_w = cur_w; prv_hb = cur_hb; prv_vb = cur_vb; and the loop's next pair
RBMTrain_assign ==
    /\ tr.step = "assign"
    /\ UNCHANGED heap
    /\ tr' = [tr EXCEPT !.prv_w = tr.cur_w,
                        !.prv_hb = tr.cur_hb,
                        !.prv_vb = tr.cur_vb,
                        !.done = Append(tr.done, tr.todo[1]),
                        !.todo = Tail(tr.todo),
                        !.step = LoopStep(Tail(tr.todo), tr.epoch)]
    /\ UNCHANGED <<events, RBM_hidden_sizes, trX, trY, inpX, rbm_list, nNet, pc, ri, nt,
                   rng, out, failure>>

\* the error run fed the first batch and the parameters train started from
ErrFeed_Stale(f) ==
    [X |-> Slice(f.X, 0, batchsize),
     w |-> Zeros2(Len(f.cur_w), Len(f.cur_w[1])),
     hb |-> Zeros1(Len(f.cur_hb)),
     vb |-> Zeros1(Len(f.cur_vb))]

\* what sess.run(err, ...) is fed at the end of an epoch
ErrFeed(f) == [X |-> f.X, w |-> f.cur_w, hb |-> f.cur_hb, vb |-> f.cur_vb]

\* error = sess.run(err, {v0: X, _w: cur_w, _vb: cur_vb, _hb: cur_hb});
\* print 'Epoch: %d' % epoch, 'reconstruction error: %f' % error;
\* then the next epoch, if any
RBMTrain_err ==
    /\ tr.step = "err"
    /\ UNCHANGED heap
    /\ IF ~FeedFits(tr)
       THEN /\ Raise("ValueError")
            /\ UNCHANGED <<rng, out>>
       ELSE /\ \E e \in ErrRun(ErrFeed(tr).X, ErrFeed(tr).w, ErrFeed(tr).hb, ErrFeed(tr).vb) :
                 out' = Append(out, [line |-> "Epoch", n |-> tr.epoch, value |-> e])
            /\ tr' = [tr EXCEPT !.epoch = tr.epoch + 1,
                                !.todo = Batches(Len(tr.X.rows), batchsize),
                                !.done = <<>>,
                                !.step = LoopStep(Batches(Len(tr.X.rows), batchsize),
                                                  tr.epoch + 1)]
            /\ rng' = rng + 1
            /\ UNCHANGED <<nt, pc, failure>>
    /\ UNCHANGED <<events, RBM_hidden_sizes, trX, trY, inpX, rbm_list, nNet, ri>>

\* what the end of train assigns to self.w, self.hb, self.vb
Stored(f) == [w |-> f.prv_w, hb |-> f.prv_hb, vb |-> f.prv_vb]

\* self.w = prv_w; self.hb = prv_hb; self.vb = prv_vb; return to cell 16
RBMTrain_store ==
    /\ tr.step = "store"
    /\ UNCHANGED heap
    /\ rbm_list' = [rbm_list EXCEPT ![tr.self].w = Stored(tr).w,
                                    ![tr.self].hb = Stored(tr).hb,
                                    ![tr.self].vb = Stored(tr).vb]
    /\ tr' = IdleFrame
    /\ pc' = "cell16_output"
    /\ UNCHANGED <<RBM_hidden_sizes, trX, trY, inpX, nNet, ri, nt, rng, out, failure>>
    /\ events' = Append(events, <<"RBM.train returns", tr.self>>)

\* rbm_output reading the parameters the constructor set, not self.w, self.hb
rbm_output_Untrained(rbm, X) ==
    [width |-> rbm._output_size,
     rows |-> prob_h_given_v(X.rows, Zeros2(rbm._input_size, rbm._output_size),
                             Zeros1(rbm._output_size))]

\* RBM.rbm_output: sigmoid(X . self.w + self.hb)
rbm_output(rbm, X) ==
    [width |-> rbm._output_size, rows |-> prob_h_given_v(X.rows, rbm.w, rbm.hb)]

----------------------------------------------------------------------------
(* the notebook's cells 13 and 16 *)

\* cell 13: one RBM per entry of RBM_hidden_sizes, each as wide at its input
\* as the one before it is at its output, the first as wide as trX
Cell13 ==
    /\ pc = "cell13"
    /\ UNCHANGED heap
    /\ inpX' = trX
    /\ rbm_list' = [i \in 1 .. Len(RBM_hidden_sizes) |->
                      RBM(IF i = 1 THEN trX.width ELSE RBM_hidden_sizes[i - 1],
                          RBM_hidden_sizes[i])]
    /\ out' = out \o [i \in 1 .. Len(RBM_hidden_sizes) |->
                        [line |-> "RBM:", n |-> i - 1, value |-> RBM_hidden_sizes[i]]]
    /\ ri' = 1
    /\ pc' = IF Len(RBM_hidden_sizes) > 0 THEN "cell16" ELSE "cell22"
    /\ UNCHANGED <<events, RBM_hidden_sizes, trX, trY, nNet, tr, nt, rng, failure>>

\* cell 16, loop body: print 'New RBM:'; rbm.train(inpX)
Cell16_train ==
    /\ pc = "cell16"
    /\ UNCHANGED heap
    /\ out' = Append(out, [line |-> "New RBM:", n |-> ri - 1, value |-> 0])
    /\ tr' = TrainFrame(ri, inpX)
    /\ pc' = "cell16_train"
    /\ UNCHANGED <<RBM_hidden_sizes, trX, trY, inpX, rbm_list, nNet, ri, nt, rng, failure>>
    /\ events' = Append(events, <<"RBM.train", ri>>)

\* cell 16, loop body: inpX = rbm.rbm_output(inpX); then the next rbm
Cell16_output ==
    /\ pc = "cell16_output"
    /\ UNCHANGED heap
    /\ IF inpX.width # rbm_list[ri]._input_size
       THEN /\ Raise("ValueError")
            /\ UNCHANGED <<inpX, ri, events>>
       ELSE /\ inpX' = rbm_output(rbm_list[ri], inpX)
            /\ ri' = ri + 1
            /\ pc' = IF ri < Len(rbm_list) THEN "cell16" ELSE "cell22"
            /\ events' = Append(events, <<"RBM.rbm_output", ri>>)
            /\ UNCHANGED <<tr, nt, failure>>
    /\ UNCHANGED <<RBM_hidden_sizes, trX, trY, rbm_list, nNet, rng, out>>

----------------------------------------------------------------------------
(* class NN *)

\* no NN object has been constructed yet
NoNN == [none |-> TRUE]

\* the values np.random.uniform(-max_range, max_range) is let to take:
\* max_range = 4 * sqrt(6 / (input_size + size)) exceeds 1/2 for every layer
\* of the model
RandomValues == {0 - 1, 1}

\* the input width of layer i (1-based) for hidden sizes `sizes` and data X
LayerIn(sizes, X, i) == IF i = 1 THEN X.width ELSE sizes[i - 1]

\* np.random.uniform(-max_range, max_range, [a, b]); the model lets one
\* drawn value fill the array
RandomUniform(a, b) == {[i \in 1 .. a |-> [j \in 1 .. b |-> v]] : v \in RandomValues}

\* the lists that the initialization loop can have appended after k layers
RECURSIVE WeightLists(_, _, _, _)
WeightLists(sizes, X, layers, k) ==
    IF k = 0 THEN {<<>>}
    ELSE {Append(l, m) : l \in WeightLists(sizes, X, layers, k - 1),
                         m \in RandomUniform(LayerIn(sizes, X, k), layers[k])}

\* NN.__init__: every object the constructor can build
NN(sizes, X, Y) ==
    LET layers == sizes \o <<Y.width>>
    IN  {[_sizes |-> sizes, _X |-> X, _Y |-> Y, w_list |-> wl,
          b_list |-> [i \in 1 .. Len(layers) |-> Zeros1(layers[i])]] :
         wl \in WeightLists(sizes, X, layers, Len(layers))}

\* load_from_rbms without its per-position assert
SizesAgree_LengthOnly(nn, dbn_sizes) == Len(dbn_sizes) = Len(nn._sizes)

\* the two asserts of load_from_rbms
SizesAgree(nn, dbn_sizes) ==
    /\ Len(dbn_sizes) = Len(nn._sizes)
    /\ \A i \in 1 .. Len(nn._sizes) : dbn_sizes[i] = nn._sizes[i]

\* the assignment loop taking the visible bias in place of the hidden one
Adopted_VisibleBias(nn, rl) ==
    LET k == IF Len(rl) < Len(nn._sizes) THEN Len(rl) ELSE Len(nn._sizes)
    IN  [nn EXCEPT !.w_list = [i \in 1 .. Len(nn.w_list) |->
                                 IF i <= k THEN rl[i].w ELSE nn.w_list[i]],
                   !.b_list = [i \in 1 .. Len(nn.b_list) |->
                                 IF i <= k THEN rl[i].vb ELSE nn.b_list[i]]]

\* the assignment loop of load_from_rbms, as far as it gets: rbm_list[i]
\* raises IndexError at the first i the list does not have
Adopted(nn, rl) ==
    LET k == IF Len(rl) < Len(nn._sizes) THEN Len(rl) ELSE Len(nn._sizes)
    IN  [nn EXCEPT !.w_list = [i \in 1 .. Len(nn.w_list) |->
                                 IF i <= k THEN rl[i].w ELSE nn.w_list[i]],
                   !.b_list = [i \in 1 .. Len(nn.b_list) |->
                                 IF i <= k THEN rl[i].hb ELSE nn.b_list[i]]]

\* NN.load_from_rbms(dbn_sizes, rbm_list): the object afterwards and the
\* exception raised, if any
load_from_rbms(nn, dbn_sizes, rl) ==
    IF ~SizesAgree(nn, dbn_sizes)
    THEN [nn |-> nn, raised |-> "AssertionError"]
    ELSE [nn |-> Adopted(nn, rl),
          raised |-> IF Len(rl) < Len(nn._sizes) THEN "IndexError" ELSE "none"]

\* shape of x + b under broadcasting, 0 when the shapes are incompatible
Broadcast(a, b) ==
    IF a = b THEN a ELSE IF a = 1 THEN b ELSE IF b = 1 THEN a ELSE 0

\* the width of activation _a[i] (0-based i) as the graph construction of
\* NN.train infers it; 0 when tf.matmul or the addition rejects the shapes
RECURSIVE ActWidth(_, _, _, _)
ActWidth(wl, bl, X, i) ==
    IF i = 0 THEN X.width
    ELSE LET prev == ActWidth(wl, bl, X, i - 1)
         IN  IF prev = 0 \/ prev # Len(wl[i]) THEN 0
             ELSE Broadcast(Len(wl[i][1]), Len(bl[i]))

\* the graph of NN.train can be built: every matmul, bias addition and the
\* difference to the labels has compatible shapes
GraphFits(nn) ==
    LET last == ActWidth(nn.w_list, nn.b_list, nn._X, Len(nn.w_list))
    IN  last # 0 /\ Broadcast(last, nn._Y.width) # 0

\* _a[i] = sigmoid(matmul(_a[i - 1], _w[i - 1]) + _b[i - 1]) for one row
RECURSIVE Activation(_, _, _, _)
Activation(wl, bl, row, i) ==
    IF i = 0 THEN row
    ELSE LET prev == Activation(wl, bl, row, i - 1)
             cols == Len(wl[i][1])
             n == Broadcast(cols, Len(bl[i]))
         IN  [j \in 1 .. n |->
                Sigmoid(RDiv(Sum([k \in 1 .. Len(prev) |->
                                    prev[k] * wl[i][k][IF cols = 1 THEN 1 ELSE j]]), Unit)
                        + bl[i][IF Len(bl[i]) = 1 THEN 1 ELSE j])]

\* tf.argmax / np.argmax along a row: the first index of the largest entry
ArgMax(row) ==
    CHOOSE j \in 1 .. Len(row) :
        /\ \A k \in 1 .. Len(row) : row[k] <= row[j]
        /\ \A k \in 1 .. j - 1 : row[k] < row[j]

\* np.mean(np.argmax(Y, axis=1) == sess.run(predict_op, {_a[0]: X, y: Y}))
Accuracy(wl, bl, X, Y) ==
    LET hit == [r \in 1 .. Len(X.rows) |->
                  IF ArgMax(Y.rows[r]) = ArgMax(Activation(wl, bl, X.rows[r], Len(wl)))
                  THEN 1 ELSE 0]
    IN  IF Len(X.rows) = 0 THEN NaN ELSE RDiv(Sum(hit) * Unit, Len(X.rows))

\* One run of train_op moves every variable.  The gradient arithmetic is
\* tf.train.MomentumOptimizer's; the model lets the step be any of these
\* shifts of the variables, which keep their shapes.
OptimizerSteps == {0 - 1, 1}
ShiftedW(wl, d) ==
    [i \in 1 .. Len(wl) |-> [j \in 1 .. Len(wl[i]) |->
        [k \in 1 .. Len(wl[i][j]) |-> wl[i][j][k] + d]]]
ShiftedB(bl, d) ==
    [i \in 1 .. Len(bl) |-> [j \in 1 .. Len(bl[i]) |-> bl[i][j] + d]]

----------------------------------------------------------------------------
(* NN.train, statement by statement *)

\* where the body continues when the batch loop has todo left to do
NNLoopStep(todo) == IF Len(todo) > 0 THEN "train_op" ELSE "epoch_end"

\* NN.train() up to the first statement of the training loop: the graph is
\* built and the variables _w, _b are initialized from w_list, b_list
NNTrainFrame(nn) ==
    LET todo == Batches(Len(nn._X.rows), batchsize)
    IN  [step |-> IF epoches > 0 THEN NNLoopStep(todo) ELSE "idle",
         _w |-> nn.w_list,
         _b |-> nn.b_list,
         epoch |-> 0,
         todo |-> todo,
         done |-> <<>>]

\* sess.run(train_op, {_a[0]: _X[start:end], y: _Y[start:end]}); and the
\* loop's next pair
NNTrain_train_op ==
    /\ nt.step = "train_op"
    /\ UNCHANGED heap
    /\ \E d \in OptimizerSteps :
         nt' = [nt EXCEPT !._w = ShiftedW(nt._w, d),
                          !._b = ShiftedB(nt._b, d),
                          !.done = Append(nt.done, nt.todo[1]),
                          !.todo = Tail(nt.todo),
                          !.step = NNLoopStep(Tail(nt.todo))]
    /\ UNCHANGED <<events, RBM_hidden_sizes, trX, trY, inpX, rbm_list, nNet, pc, ri, tr,
                   rng, out, failure>>

\* for j: w_list[j] = sess.run(_w[j]); b_list[j] = sess.run(_b[j]);
\* print the accuracy; then the next epoch, or the return to cell 22
NNTrain_epoch_end ==
    /\ nt.step = "epoch_end"
    /\ UNCHANGED heap
    /\ nNet' = [nNet EXCEPT !.w_list = nt._w, !.b_list = nt._b]
    /\ out' = Append(out, [line |-> "Accuracy", n |-> nt.epoch,
                           value |-> Accuracy(nt._w, nt._b, nNet._X, nNet._Y)])
    /\ IF nt.epoch + 1 < epoches
       THEN /\ nt' = [nt EXCEPT !.epoch = nt.epoch + 1,
                                !.todo = Batches(Len(nNet._X.rows), batchsize),
                                !.done = <<>>,
                                !.step = NNLoopStep(Batches(Len(nNet._X.rows), batchsize))]
            /\ pc' = pc
            /\ events' = events
       ELSE /\ nt' = IdleFrame
            /\ pc' = "done"
            /\ events' = Append(events, <<"NN.train returns", 0>>)
    /\ UNCHANGED <<RBM_hidden_sizes, trX, trY, inpX, rbm_list, ri, tr, rng, failure>>

----------------------------------------------------------------------------
(* the notebook's cell 22 *)

\* nNet = NN(RBM_hidden_sizes, trX, trY)
Cell22_NN ==
    /\ pc = "cell22"
    /\ UNCHANGED heap
    /\ nNet' \in NN(RBM_hidden_sizes, trX, trY)
    /\ pc' = "cell22_load"
    /\ UNCHANGED <<RBM_hidden_sizes, trX, trY, inpX, rbm_list, ri, tr, nt, rng,
                   out, failure>>
    /\ events' = Append(events, <<"NN", 0>>)

\* nNet.load_from_rbms(RBM_hidden_sizes, rbm_list)
Cell22_load ==
    /\ pc = "cell22_load"
    /\ UNCHANGED heap
    /\ nNet' = load_from_rbms(nNet, RBM_hidden_sizes, rbm_list).nn
    /\ IF load_from_rbms(nNet, RBM_hidden_sizes, rbm_list).raised # "none"
       THEN Raise(load_from_rbms(nNet, RBM_hidden_sizes, rbm_list).raised)
       ELSE /\ pc' = "cell22_train"
            /\ UNCHANGED <<tr, nt, failure>>
    /\ UNCHANGED <<RBM_hidden_sizes, trX, trY, inpX, rbm_list, ri, rng, out>>
    /\ events' = Append(events, <<"NN.load_from_rbms", 0>>)

\* nNet.train()
Cell22_train ==
    /\ pc = "cell22_train"
    /\ UNCHANGED heap
    /\ IF ~GraphFits(nNet)
       THEN Raise("ValueError")
       ELSE /\ nt' = NNTrainFrame(nNet)
            /\ pc' = IF epoches > 0 THEN "cell22_in_train" ELSE "done"
            /\ UNCHANGED <<tr, failure>>
    /\ UNCHANGED <<RBM_hidden_sizes, trX, trY, inpX, rbm_list, nNet, ri, rng, out>>
    /\ events' = Append(events, <<"NN.train", 0>>)

----------------------------------------------------------------------------
(* datasets *)

Pixel(kind, r, i) ==
    IF kind = "zeros" THEN 0
    ELSE IF kind = "ones" THEN Unit
    ELSE IF (r + i) % 2 = 0 THEN Unit ELSE 0

\* n rows of the given width
Dataset(n, width, kind) ==
    [width |-> width, rows |-> [r \in 1 .. n |-> [i \in 1 .. width |-> Pixel(kind, r, i)]]]

\* one-hot labels for n rows
Labels(n) ==
    [width |-> NumClasses,
     rows |-> [r \in 1 .. n |-> [c \in 1 .. NumClasses |->
                 IF c = (r % NumClasses) + 1 THEN Unit ELSE 0]]]

Datasets ==
    {Dataset(n, width, kind) :
        n \in 0 .. MaxN, width \in 1 .. MaxWidth, kind \in {"zeros", "mixed", "ones"}}

----------------------------------------------------------------------------
(* RBM.train alone: a freshly constructed RBM is trained on any dataset *)

\* the (input_size, output_size) pairs of the RBMs trained alone
RBMShapes == {<<1, 1>>, <<2, 1>>}

\* an RBM that an earlier train call left with these parameters
TrainedRBM(input_size, output_size) ==
    [RBM(input_size, output_size) EXCEPT
        !.w = [i \in 1 .. input_size |-> [j \in 1 .. output_size |-> 3]],
        !.hb = [j \in 1 .. output_size |-> 5],
        !.vb = [i \in 1 .. input_size |-> 7]]

InitTrain ==
    /\ heap = <<>>
    /\ \E shape \in RBMShapes :
         /\ RBM_hidden_sizes = <<shape[2]>>
         /\ rbm_list \in {<<RBM(shape[1], shape[2])>>, <<TrainedRBM(shape[1], shape[2])>>}
    /\ trX \in Datasets
    /\ trY = Labels(Len(trX.rows))
    /\ inpX = trX
    /\ nNet = NoNN
    /\ pc = "cell16"
    /\ ri = 1
    /\ tr = IdleFrame
    /\ nt = IdleFrame
    /\ rng = 0
    /\ out = <<>>
    /\ failure = "none"
    /\ events = <<>>

NextTrain ==
    \/ Cell16_train
    \/ RBMTrain_update_w
    \/ RBMTrain_update_hb
    \/ RBMTrain_update_vb
    \/ RBMTrain_assign
    \/ RBMTrain_err
    \/ RBMTrain_store

SpecTrain == InitTrain /\ [][NextTrain]_vars

----------------------------------------------------------------------------
(* the notebook, run from cell 13 to cell 22 *)

\* the lists RBM_hidden_sizes ranges over ([500, 200, 50] in the notebook)
SizeLists == {<<1>>, <<1, 1>>, <<2>>}

Init ==
    /\ heap = <<>>
    /\ RBM_hidden_sizes \in SizeLists
    /\ trX \in {d \in Datasets : d.width = 1}
    /\ trY = Labels(Len(trX.rows))
    /\ inpX = trX
    /\ rbm_list = <<>>
    /\ nNet = NoNN
    /\ pc = "cell13"
    /\ ri = 1
    /\ tr = IdleFrame
    /\ nt = IdleFrame
    /\ rng = 0
    /\ out = <<>>
    /\ failure = "none"
    /\ events = <<>>

Next ==
    \/ Cell13
    \/ Cell16_train
    \/ RBMTrain_update_w
    \/ RBMTrain_update_hb
    \/ RBMTrain_update_vb
    \/ RBMTrain_assign
    \/ RBMTrain_err
    \/ RBMTrain_store
    \/ Cell16_output
    \/ Cell22_NN
    \/ Cell22_load
    \/ Cell22_train
    \/ NNTrain_train_op
    \/ NNTrain_epoch_end

Spec == Init /\ [][Next]_vars

----------------------------------------------------------------------------
(* NN.load_from_rbms alone: a freshly constructed NN is handed any size    *)
(* list and any list of RBMs                                               *)

LoadSizeLists == {<<>>, <<1>>, <<2>>, <<1, 1>>, <<1, 2>>, <<2, 1>>}

RBMLists ==
    LET units == {TrainedRBM(i, o) : i \in 1 .. 2, o \in 1 .. 2}
    IN  {<<>>} \cup {<<a>> : a \in units} \cup {<<a, b>> : a \in units, b \in units}

InitLoad ==
    /\ heap = <<>>
    /\ RBM_hidden_sizes \in LoadSizeLists
    /\ trX = Dataset(1, 1, "mixed")
    /\ trY = Labels(1)
    /\ inpX = trX
    /\ rbm_list \in RBMLists
    /\ \E sizes \in LoadSizeLists : nNet \in NN(sizes, trX, trY)
    /\ pc = "cell22_load"
    /\ ri = Len(rbm_list) + 1
    /\ tr = IdleFrame
    /\ nt = IdleFrame
    /\ rng = 0
    /\ out = <<>>
    /\ failure = "none"
    /\ events = <<>>

NextLoad == Cell22_load

SpecLoad == InitLoad /\ [][NextLoad]_vars

----------------------------------------------------------------------------
(* The four methods called in any order on the constructed objects: each   *)
(* call is one step, and the arrays are held by identity in heap.          *)

MaxCalls == 3       \* most calls of one run
MaxTrains == 1      \* most RBM.train calls of one run that reach the training loop

\* the RBM.train calls so far that reached the training loop
Trains == Cardinality({i \in 1 .. Len(events) : events[i][1] = "RBM.train"})

\* a write of the value into the array the name refers to (name[:] = value)
Bind_InPlace(hp, old, value) == [heap |-> [hp EXCEPT ![old] = value], at |-> old]

\* name = value, for a value that is a new array (what sess.run returns):
\* the name refers to a new address, and the array at the address old, which
\* the name referred to before, is left as it is
Bind(hp, old, value) == [heap |-> Append(hp, value), at |-> Len(hp) + 1]

\* one such assignment after another
RECURSIVE BindAll(_, _, _)
BindAll(hp, olds, values) ==
    IF Len(olds) = 0 THEN [heap |-> hp, at |-> <<>>]
    ELSE LET b == Bind(hp, olds[1], values[1])
             rest == BindAll(b.heap, Tail(olds), Tail(values))
         IN  [heap |-> rest.heap, at |-> <<b.at>> \o rest.at]

\* rbm_list[k] with the arrays its fields refer to
RBMValue(k) ==
    [rbm_list[k] EXCEPT !.w = heap[rbm_list[k].w],
                        !.hb = heap[rbm_list[k].hb],
                        !.vb = heap[rbm_list[k].vb]]

\* nNet with the arrays its lists refer to
NNValue ==
    [nNet EXCEPT !.w_list = [i \in 1 .. Len(nNet.w_list) |-> heap[nNet.w_list[i]]],
                 !.b_list = [i \in 1 .. Len(nNet.b_list) |-> heap[nNet.b_list[i]]]]

\* RBM.train's loops run to their end from the given epoch and batches left:
\* every (prv_w, prv_hb, prv_vb) they can end with, and the lines printed
RECURSIVE TrainRuns(_, _, _, _, _)
TrainRuns(X, epoch, todo, prv, lines) ==
    IF epoch >= epochs THEN {[prv |-> prv, lines |-> lines]}
    ELSE IF Len(todo) = 0
    THEN UNION {TrainRuns(X, epoch + 1, Batches(Len(X.rows), batchsize), prv,
                          Append(lines, [line |-> "Epoch", n |-> epoch, value |-> e])) :
                e \in ErrRun(X, prv.w, prv.hb, prv.vb)}
    ELSE LET batch == Slice(X, todo[1][1], todo[1][2]).rows
         IN  UNION {TrainRuns(X, epoch, Tail(todo), cur, lines) :
                    cur \in [w : Run_update_w(batch, prv.w, prv.hb, prv.vb),
                             hb : Run_update_hb(batch, prv.w, prv.hb, prv.vb),
                             vb : Run_update_vb(batch, prv.w, prv.hb, prv.vb)]}

\* NN.train's loops run to their end: every (w_list, b_list) retrieved at
\* the last epoch's end, and the lines printed
RECURSIVE NNTrainRuns(_, _, _, _, _, _)
NNTrainRuns(nn, epoch, todo, wl, bl, lines) ==
    IF epoch >= epoches THEN {[w_list |-> wl, b_list |-> bl, lines |-> lines]}
    ELSE IF Len(todo) = 0
    THEN NNTrainRuns(nn, epoch + 1, Batches(Len(nn._X.rows), batchsize), wl, bl,
                     Append(lines, [line |-> "Accuracy", n |-> epoch,
                                    value |-> Accuracy(wl, bl, nn._X, nn._Y)]))
    ELSE UNION {NNTrainRuns(nn, epoch, Tail(todo), ShiftedW(wl, d), ShiftedB(bl, d), lines) :
                d \in OptimizerSteps}

\* rbm_list[k].train(X) for X the raw or the current input
Flow_RBM_train ==
    /\ pc = "flow"
    /\ Len(events) < MaxCalls
    /\ Trains < MaxTrains
    /\ \E k \in 1 .. Len(rbm_list), X \in {trX, inpX} :
         IF epochs > 0 /\ X.width # rbm_list[k]._input_size
         THEN /\ failure' = "ValueError"
              /\ events' = Append(events, <<"RBM.train raises", k>>)
              /\ UNCHANGED <<heap, rbm_list, rng, out>>
         ELSE \E r \in TrainRuns(X, 0, Batches(Len(X.rows), batchsize),
                                 [w |-> Zeros2(rbm_list[k]._input_size, rbm_list[k]._output_size),
                                  hb |-> Zeros1(rbm_list[k]._output_size),
                                  vb |-> Zeros1(rbm_list[k]._input_size)], <<>>) :
                LET b == BindAll(heap, <<rbm_list[k].w, rbm_list[k].hb, rbm_list[k].vb>>,
                                 <<r.prv.w, r.prv.hb, r.prv.vb>>)
                IN  /\ heap' = b.heap
                    /\ rbm_list' = [rbm_list EXCEPT ![k].w = b.at[1],
                                                    ![k].hb = b.at[2],
                                                    ![k].vb = b.at[3]]
                    /\ out' = out \o r.lines
                    /\ rng' = rng + epochs * (3 * Len(Batches(Len(X.rows), batchsize)) + 1)
                    /\ failure' = "none"
                    /\ events' = Append(events, <<"RBM.train", k>>)
    /\ UNCHANGED <<RBM_hidden_sizes, trX, trY, inpX, nNet, pc, ri, tr, nt>>

\* inpX = rbm_list[k].rbm_output(X) for X the raw or the current input
Flow_rbm_output ==
    /\ pc = "flow"
    /\ Len(events) < MaxCalls
    /\ \E k \in 1 .. Len(rbm_list), X \in {trX, inpX} :
         IF X.width # rbm_list[k]._input_size
         THEN /\ failure' = "ValueError"
              /\ events' = Append(events, <<"RBM.rbm_output raises", k>>)
              /\ inpX' = inpX
         ELSE /\ inpX' = rbm_output(RBMValue(k), X)
              /\ failure' = "none"
              /\ events' = Append(events, <<"RBM.rbm_output", k>>)
    /\ UNCHANGED <<RBM_hidden_sizes, trX, trY, rbm_list, nNet, pc, ri, tr, nt, rng, out, heap>>

\* nNet.load_from_rbms(dbn_sizes, rbm_list)
Flow_load ==
    /\ pc = "flow"
    /\ Len(events) < MaxCalls
    /\ \E dbn_sizes \in {RBM_hidden_sizes, <<>>} :
         LET r == load_from_rbms(nNet, dbn_sizes, rbm_list)
         IN  /\ nNet' = r.nn
             /\ failure' = r.raised
             /\ events' = Append(events, <<IF r.raised = "none" THEN "NN.load_from_rbms"
                                           ELSE "NN.load_from_rbms raises", 0>>)
    /\ UNCHANGED <<RBM_hidden_sizes, trX, trY, inpX, rbm_list, pc, ri, tr, nt, rng, out, heap>>

\* nNet.train()
Flow_NN_train ==
    /\ pc = "flow"
    /\ Len(events) < MaxCalls
    /\ IF ~GraphFits(NNValue)
       THEN /\ failure' = "ValueError"
            /\ events' = Append(events, <<"NN.train raises", 0>>)
            /\ UNCHANGED <<heap, nNet, out>>
       ELSE \E r \in NNTrainRuns(NNValue, 0, Batches(Len(nNet._X.rows), batchsize),
                                 NNValue.w_list, NNValue.b_list, <<>>) :
              LET b == IF epoches > 0
                       THEN BindAll(heap, nNet.w_list \o nNet.b_list, r.w_list \o r.b_list)
                       ELSE [heap |-> heap, at |-> nNet.w_list \o nNet.b_list]
                  L == Len(nNet.w_list)
              IN  /\ heap' = b.heap
                  /\ nNet' = [nNet EXCEPT !.w_list = SubSeq(b.at, 1, L),
                                          !.b_list = SubSeq(b.at, L + 1, 2 * L)]
                  /\ out' = out \o r.lines
                  /\ failure' = "none"
                  /\ events' = Append(events, <<"NN.train", 0>>)
    /\ UNCHANGED <<RBM_hidden_sizes, trX, trY, inpX, rbm_list, pc, ri, tr, nt, rng>>

\* the objects of cells 13 and 22 right after construction, every array at
\* an address of its own: RBM k's w, hb, vb at 3k - 2, 3k - 1, 3k, then the
\* classifier's weights, then its biases
InitFlow ==
    /\ RBM_hidden_sizes \in {<<1>>, <<1, 1>>}
    /\ trX \in {d \in Datasets : d.width = 1}
    /\ trY = Labels(Len(trX.rows))
    /\ inpX = trX
    /\ \E nn \in NN(RBM_hidden_sizes, trX, trY) :
         LET n == Len(RBM_hidden_sizes)
             L == Len(nn.w_list)
             rbms == [i \in 1 .. n |->
                        RBM(IF i = 1 THEN trX.width ELSE RBM_hidden_sizes[i - 1],
                            RBM_hidden_sizes[i])]
         IN  /\ heap = [a \in 1 .. (3 * n + 2 * L) |->
                          IF a <= 3 * n
                          THEN LET k == ((a - 1) \div 3) + 1
                               IN  IF a % 3 = 1 THEN rbms[k].w
                                   ELSE IF a % 3 = 2 THEN rbms[k].hb ELSE rbms[k].vb
                          ELSE IF a <= 3 * n + L THEN nn.w_list[a - 3 * n]
                          ELSE nn.b_list[a - 3 * n - L]]
             /\ rbm_list = [k \in 1 .. n |-> [rbms[k] EXCEPT !.w = 3 * k - 2,
                                                             !.hb = 3 * k - 1,
                                                             !.vb = 3 * k]]
             /\ nNet = [nn EXCEPT !.w_list = [i \in 1 .. L |-> 3 * n + i],
                                  !.b_list = [i \in 1 .. L |-> 3 * n + L + i]]
    /\ pc = "flow"
    /\ ri = 1
    /\ tr = IdleFrame
    /\ nt = IdleFrame
    /\ rng = 0
    /\ out = <<>>
    /\ failure = "none"
    /\ events = <<>>

NextFlow ==
    \/ Flow_RBM_train
    \/ Flow_rbm_output
    \/ Flow_load
    \/ Flow_NN_train

SpecFlow == InitFlow /\ [][NextFlow]_vars

----------------------------------------------------------------------------
(* Properties of NN.load_from_rbms (specification SpecLoad) *)

\* C1: load_from_rbms(dbn_sizes, rbm_list) raises the precondition failure
\* whenever dbn_sizes differs from the classifier's own size list, in length
\* or at any position, and then leaves w_list and b_list as they were; when
\* the two lists are equal the size check passes.
C1_SizeCheck ==
    [][pc = "cell22_load" =>
         /\ RBM_hidden_sizes # nNet._sizes =>
              /\ failure' = "AssertionError"
              /\ nNet'.w_list = nNet.w_list
              /\ nNet'.b_list = nNet.b_list
         /\ RBM_hidden_sizes = nNet._sizes => failure' # "AssertionError"]_vars

\* a list of the right length that differs at a position has been refused
C1_Witness ==
    /\ failure = "AssertionError"
    /\ Len(RBM_hidden_sizes) = Len(nNet._sizes)
    /\ Len(RBM_hidden_sizes) = 2
    /\ RBM_hidden_sizes[1] = nNet._sizes[1]
    /\ RBM_hidden_sizes[2] # nNet._sizes[2]

\* the RBM units handed over are as many and as wide as the declared layers
UnitsMatch(nn, rl) ==
    /\ Len(rl) = Len(nn._sizes)
    /\ \A i \in 1 .. Len(rl) : rl[i]._output_size = nn._sizes[i]

\* C2: load_from_rbms fails whenever the declared hidden-layer sizes disagree
\* with the sizes of the RBM units in rbm_list; it never adopts parameters
\* from an RBM list whose sizes do not match the declared layers.
C2_FailsOnUnitMismatch ==
    pc = "cell22_train" => UnitsMatch(nNet, rbm_list)

\* C3: after a successful load_from_rbms every hidden layer i has the weight
\* and the hidden bias of rbm_list[i], the output layer keeps its constructor
\* values, there are still len(sizes) + 1 layers, and no visible bias has
\* been transferred.
C3_Transfer ==
    [][(pc = "cell22_load" /\ pc' = "cell22_train") =>
         LET n == Len(nNet._sizes)
         IN  /\ \A i \in 1 .. n :
                  /\ nNet'.w_list[i] = rbm_list[i].w
                  /\ nNet'.b_list[i] = rbm_list[i].hb
             /\ nNet'.w_list[n + 1] = nNet.w_list[n + 1]
             /\ nNet'.b_list[n + 1] = nNet.b_list[n + 1]
             /\ Len(nNet'.w_list) = n + 1
             /\ Len(nNet'.b_list) = n + 1
             /\ \A i \in 1 .. Len(rbm_list) :
                  /\ \A j \in 1 .. n + 1 : nNet'.b_list[j] # rbm_list[i].vb
                  /\ \A j \in 1 .. n + 1 :
                       \A k \in 1 .. Len(nNet'.w_list[j]) :
                          nNet'.w_list[j][k] # rbm_list[i].vb
             /\ [nNet' EXCEPT !.w_list = <<>>, !.b_list = <<>>]
                  = [nNet EXCEPT !.w_list = <<>>, !.b_list = <<>>]
             /\ rbm_list' = rbm_list]_vars

\* two hidden layers have adopted the parameters of two different units
C3_Witness ==
    /\ pc = "cell22_train"
    /\ Len(nNet._sizes) = 2
    /\ nNet.w_list[1] = rbm_list[1].w
    /\ nNet.b_list[2] = rbm_list[2].hb
    /\ rbm_list[1] # rbm_list[2]

----------------------------------------------------------------------------
(* Properties of RBM.train (specification SpecTrain) *)

\* the end-of-epoch error run has just printed its line: cur_w, cur_hb and
\* cur_vb are still what that run was fed
JustReported ==
    /\ tr.step \in {"update_w", "err", "store"}
    /\ tr.epoch > 0
    /\ tr.done = <<>>
    /\ Len(out) > 0
    /\ out[Len(out)].line = "Epoch"

AllZero2(m) == \A i \in 1 .. Len(m) : \A j \in 1 .. Len(m[i]) : m[i][j] = 0
AllZero1(v) == \A i \in 1 .. Len(v) : v[i] = 0

\* the error run was fed all-zero parameters and a non-empty all-zero input
ZeroCase ==
    /\ JustReported
    /\ AllZero2(tr.cur_w) /\ AllZero1(tr.cur_hb) /\ AllZero1(tr.cur_vb)
    /\ Len(tr.X.rows) > 0
    /\ AllZero2(tr.X.rows)

\* C4 as stated: for all-zero weights and biases and an all-zero input the
\* reconstruction error is 0 for every outcome of the sampling.
C4_ZeroErrorAlways == ZeroCase => out[Len(out)].value = 0

\* C4 as amended: in that case the reconstruction error is the fraction
\* k / n of the n reconstructed visible units that the sampling set to 1
\* (each is 1 with probability 1/2), so it lies in [0, 1].
C4_ZeroErrorIsFraction ==
    ZeroCase =>
        LET n == Len(tr.X.rows) * tr.X.width
        IN  out[Len(out)].value \in {RDiv(k * Unit, n) : k \in 0 .. n}

\* every visible unit of a zero input was reconstructed as 1: the error is 1
C4_Witness == ZeroCase /\ out[Len(out)].value = Unit

\* C5: one batch update changes the weights by exactly
\* learning_rate * (v0^T h0 - v1^T h1) / batch_rows and the biases by
\* learning_rate times the batch means of (v0 - v1) and (h0 - h1), for h0
\* the hidden sample from v0, v1 the reconstruction from h0 and h1 the hidden
\* probabilities from v1, all computed from the pre-update parameters.
C5_ClosedForm ==
    tr.step = "assign" =>
        \E s \in Samples(Batch(tr).rows, tr.prv_w, tr.prv_hb, tr.prv_vb) :
            /\ tr.cur_w = update_w(s, Batch(tr).rows, tr.prv_w)
            /\ tr.cur_vb = update_vb(s, Batch(tr).rows, tr.prv_vb)
            /\ tr.cur_hb = update_hb(s, Batch(tr).rows, tr.prv_hb)

\* the "Epoch" lines printed so far, in the order printed
RECURSIVE EpochLines(_)
EpochLines(lines) ==
    IF lines = <<>> THEN <<>>
    ELSE IF lines[1].line = "Epoch" THEN <<lines[1].n>> \o EpochLines(Tail(lines))
    ELSE EpochLines(Tail(lines))

Mismatch == trX.width # rbm_list[1]._input_size

\* C8: RBM.train on a dataset whose row width differs from input_size fails,
\* whatever the dataset's length, and leaves w, hb and vb as they were; and
\* w, hb and vb are assigned only after the last epoch has completed.
C8_FailFast ==
    [][/\ (Mismatch /\ tr.step # "idle") =>
            /\ failure' = "ValueError"
            /\ pc' = "failed"
            /\ rbm_list' = rbm_list
       /\ rbm_list' # rbm_list =>
            /\ tr.step = "store"
            /\ tr.epoch = epochs
            /\ EpochLines(out) = [e \in 1 .. epochs |-> e - 1]]_vars

\* a trained RBM has refused a dataset long enough to have batches, and
\* another has refused one too short to have any
C8_Witness ==
    /\ failure = "ValueError"
    /\ Mismatch
    /\ Len(trX.rows) <= batchsize
    /\ ~AllZero2(rbm_list[1].w)

\* C10: each batch update is one contrastive-divergence step: the new
\* weights, hidden bias and visible bias come from the same pre-update
\* parameters and from one and the same sample (h0, v1, h1) drawn for the
\* batch.
C10_OneSample ==
    tr.step = "assign" => (tr.draw_w = tr.draw_hb /\ tr.draw_hb = tr.draw_vb)

----------------------------------------------------------------------------
(* Properties of the notebook's run (specification Spec) *)

\* the calls and returns of a run over n RBMs, in the order claimed
RECURSIVE StackEvents(_)
StackEvents(n) ==
    IF n = 0 THEN <<>>
    ELSE StackEvents(n - 1)
         \o <<<<"RBM.train", n>>, <<"RBM.train returns", n>>, <<"RBM.rbm_output", n>>>>

ClaimedEvents(n) ==
    StackEvents(n)
    \o <<<<"NN", 0>>, <<"NN.load_from_rbms", 0>>, <<"NN.train", 0>>, <<"NN.train returns", 0>>>>

IsPrefix(s, t) == Len(s) <= Len(t) /\ s = SubSeq(t, 1, Len(s))

\* the hidden-layer output of RBMs 1 .. k - 1 stacked on the raw input, from
\* the parameters the RBMs hold now
RECURSIVE StackInput(_)
StackInput(k) ==
    IF k = 1 THEN trX
    ELSE [width |-> rbm_list[k - 1]._output_size,
          rows |-> prob_h_given_v(StackInput(k - 1).rows, rbm_list[k - 1].w,
                                  rbm_list[k - 1].hb)]

\* C7: RBM k is trained only after RBM k - 1 has finished training, on the
\* hidden-layer output of RBM k - 1 computed from its trained parameters (the
\* first RBM on the raw input); the transfer into the classifier happens
\* exactly once, after every RBM has finished training and before the
\* classifier's training starts.
C7_Order ==
    /\ IsPrefix(events, ClaimedEvents(Len(RBM_hidden_sizes)))
    /\ tr.step # "idle" =>
         /\ events[Len(events)] = <<"RBM.train", tr.self>>
         /\ tr.X = StackInput(tr.self)
    /\ nt.step # "idle" => events[Len(events)] = <<"NN.train", 0>>

\* the second RBM is in training on an input that the first RBM's trained
\* parameters moved away from what untrained parameters give
C7_Witness ==
    /\ tr.step # "idle"
    /\ tr.self = 2
    /\ ~AllZero2(rbm_list[1].w)
    /\ tr.X # rbm_output_Untrained(rbm_list[1], trX)

\* the pairs (start, end) in done are consecutive from 0, none longer than
\* bs, and every index below n lies in exactly one of them
IsPass(done, n, bs) ==
    /\ \A b \in 1 .. Len(done) :
         /\ done[b][1] = (IF b = 1 THEN 0 ELSE done[b - 1][2])
         /\ done[b][1] < done[b][2]
         /\ done[b][2] - done[b][1] <= bs
         /\ done[b][2] <= n
    /\ \A idx \in 0 .. n - 1 :
         Cardinality({b \in 1 .. Len(done) : done[b][1] <= idx /\ idx < done[b][2]}) = 1

\* C9: in every epoch of RBM.train and of NN.train the mini-batches are a
\* pass over the dataset: for every length N >= 1 each example index belongs
\* to exactly one mini-batch, batches are consecutive, in increasing order,
\* and none exceeds the batch size.
C9_BatchesArePass ==
    /\ tr.step = "err" => IsPass(tr.done, Len(tr.X.rows), batchsize)
    /\ nt.step = "epoch_end" => IsPass(nt.done, Len(nNet._X.rows), batchsize)

----------------------------------------------------------------------------
(* Properties of the calls in any order (specification SpecFlow) *)

\* the call that the latest step made
LastCall == events[Len(events)]

\* C11: parameter flow is one-directional.  Over any sequence of RBM.train,
\* RBM.rbm_output, NN.load_from_rbms and NN.train calls, the w, hb and vb of
\* an RBM change only by that RBM's own train call: NN.train, also after
\* load_from_rbms, changes no RBM's parameters; and the classifier's w_list
\* and b_list change only by the classifier's own load_from_rbms and train,
\* never by an RBM.train.
C11_OneDirectional ==
    [][/\ \A k \in 1 .. Len(rbm_list) :
            RBMValue(k)' # RBMValue(k) => LastCall' = <<"RBM.train", k>>
       /\ NNValue' # NNValue =>
            LastCall'[1] \in {"NN.load_from_rbms", "NN.load_from_rbms raises", "NN.train"}]_vars

\* the classifier adopted the first RBM's arrays, then trained, then the
\* first RBM trained again: both moved away from the array they shared
C11_Witness ==
    /\ Len(events) >= 3
    /\ SubSeq(events, Len(events) - 2, Len(events))
         = <<<<"NN.load_from_rbms", 0>>, <<"NN.train", 0>>, <<"RBM.train", 1>>>>
    /\ heap[1] = Zeros2(1, 1)
    /\ NNValue.w_list[1] # heap[1]
    /\ RBMValue(1).w # heap[1]
    /\ NNValue.w_list[1] # RBMValue(1).w

====
